---- MODULE Spec2Model ----
(***************************************************************************)
(* Model of the rate-limited inference dispatch of anti-nsfw-service:      *)
(*   - RateLimitMiddleware (internal/middleware/rate_limit.go)             *)
(*   - NSFWService scan / batch / detect / stats (internal/services)       *)
(*   - ONNXRuntimeService.RunInference (internal/services/onnx_service.go) *)
(* Time is an integer number of ticks; time.Time{} (the zero time) is 0    *)
(* and the clock starts at 1.                                              *)
(***************************************************************************)
EXTENDS Integers, Sequences, FiniteSets, TLC

VARIABLES
    limit,          \* RateLimitMiddleware.limit
    window,         \* RateLimitMiddleware.window
    blockWindow,    \* RateLimitMiddleware.blockWindow
    clock,          \* what time.Now() returns
    visitors,       \* RateLimitMiddleware.visitors : ip -> Visitor
    hist,           \* history: per ip, the last `limit` admission instants
    blockAt,        \* history: per ip, instant of the limit denial whose block no
                    \* later request has outlived yet (0: none)
    event,          \* history: the step just taken, its reads and its outcome
    mutex,          \* RateLimitMiddleware.mutex: "free" or the worker holding it
    pc,             \* per worker: where its RateLimit call stands
    loc,            \* per worker: ip, the clock reads and the outcome of its call
    snap,           \* history: per worker, visitors when it took the mutex
    post,           \* history: per worker, visitors when it released the mutex
    config,         \* config.Config: NSFWThreshold (tenths), MaxFileSizeMB
    models,         \* ONNXRuntimeService.models: the names loaded
    stats,          \* NSFWService.stats
    tokens,         \* ONNXRuntimeService.limiter: tokens left in the bucket
    stdinImage,     \* whether os.Stdin still holds a decodable image
    cumMs,          \* history: sum of the milliseconds handed to the stats updates
    call,           \* history: the service call just made and what it returned
    phase,          \* main: "starting", "serving" (the listener runs) or "fatal"
    lastSnapshot,   \* history: the statistics last returned, and how many times
                    \* in a row with no updateStats / updateTotalScans since
    twin,           \* a second RateLimitMiddleware that is given part of what the
                    \* first one is given: its visitors and its last outcome
    sw              \* NSFWService.statsMutex and the goroutines inside updateStats,
                    \* updateTotalScans and GetStats: holder, readers, positions

concVars == <<mutex, pc, loc, snap, post>>

sideVars == <<twin, sw>>

svcVars == <<config, models, stats, tokens, stdinImage, cumMs, call, phase, lastSnapshot>>

vars == <<limit, window, blockWindow, clock, visitors, hist, blockAt, event,
          mutex, pc, loc, snap, post,
          config, models, stats, tokens, stdinImage, cumMs, call, phase, lastSnapshot,
          twin, sw>>

----------------------------------------------------------------------------
(* Bounds and input sets *)

MaxTime == 6                 \* the clock stops advancing here
MaxDelay == 1                \* most ticks between two time.Now() reads of one call
ConcMaxTime == 3             \* the clock stops here while workers interleave
Clients == {"a", "b"}        \* c.ClientIP() values
Workers == {"w1", "w2", "w3"}  \* goroutines, each serving one request
Limits == {1, 2}
Windows == {2, 3}
BlockWindows == {1, 3}

----------------------------------------------------------------------------
(* time.Time helpers *)

ZeroTime == 0

Before(t, u) == t < u

After(t, u) == t > u

----------------------------------------------------------------------------
(* RateLimitMiddleware.RateLimit, the code between Lock and Unlock *)

NewVisitor == [Requests |-> <<>>, BlockedUntil |-> ZeroTime]

IsBlocked_Inclusive(vis, ip, n1) ==
    ip \in DOMAIN vis /\ ~After(n1, vis[ip].BlockedUntil)

\* line 53: exists && time.Now().Before(visitor.BlockedUntil)
IsBlocked(vis, ip, n1) == ip \in DOMAIN vis /\ Before(n1, vis[ip].BlockedUntil)

Prune_KeepAll(reqs, cutoff) == reqs

Prune_Closed(reqs, cutoff) == SelectSeq(reqs, LAMBDA t : ~Before(t, cutoff))

Prune_Inverted(reqs, cutoff) == SelectSeq(reqs, LAMBDA t : ~After(t, cutoff))

\* lines 74-80: keep the requests strictly after the cutoff, in order
Prune(reqs, cutoff) == SelectSeq(reqs, LAMBDA t : After(t, cutoff))

LimitExceeded_Strict(n) == n > limit

\* line 83: len(visitor.Requests) >= r.limit
LimitExceeded(n) == n >= limit

Put_Shared(vis, ip, v) == [c \in (DOMAIN vis) \cup {ip} |-> v]

Put(vis, ip, v) == [c \in (DOMAIN vis) \cup {ip} |-> IF c = ip THEN v ELSE vis[c]]

BlockedBranch_Extend(vis, ip, n1) ==
    Put(vis, ip, [vis[ip] EXCEPT !.BlockedUntil = n1 + blockWindow])

\* lines 53-60: the visitor is blocked; nothing is written
BlockedBranch(vis, ip, n1) == vis

\* lines 62-98: create, prune, compare, block or append
OpenBranch(vis, ip, n2, n3) ==
    LET v0     == IF ip \in DOMAIN vis THEN vis[ip] ELSE NewVisitor
        cutoff == n2 - window
        pruned == Prune(v0.Requests, cutoff)
    IN  IF LimitExceeded(Len(pruned))
        THEN [vis |-> Put(vis, ip, [Requests |-> pruned,
                                    BlockedUntil |-> n3 + blockWindow]),
              out |-> "Blocked", path |-> "limit"]
        ELSE [vis |-> Put(vis, ip, [Requests |-> Append(pruned, n2),
                                    BlockedUntil |-> v0.BlockedUntil]),
              out |-> "Allowed", path |-> "admit"]

\* lines 49-98 as one step: n1, n2, n3 are the three time.Now() reads
Admit(vis, ip, n1, n2, n3) ==
    IF IsBlocked(vis, ip, n1)
    THEN [vis |-> BlockedBranch(vis, ip, n1), out |-> "Blocked", path |-> "blocked"]
    ELSE OpenBranch(vis, ip, n2, n3)

\* the visitor record as a caller sees it (absent: exists = FALSE)
View(vis, ip) ==
    IF ip \in DOMAIN vis
    THEN [exists |-> TRUE, Requests |-> vis[ip].Requests,
          BlockedUntil |-> vis[ip].BlockedUntil]
    ELSE [exists |-> FALSE, Requests |-> <<>>, BlockedUntil |-> ZeroTime]

LastN(s, n) == IF Len(s) <= n THEN s ELSE SubSeq(s, Len(s) - n + 1, Len(s))

\* goroutines that call the statistics functions
StatWorkers == {"g1", "g2", "g3"}

NoJob == [op |-> "none", count |-> 0, ms |-> 0, isNSFW |-> FALSE]

NoSeen == [guard |-> 0, time |-> 0, den |-> 0, TotalScans |-> 0, NSFWDetected |-> 0]

\* statsMutex free and no goroutine inside a statistics function
NoStatsWork ==
    [writer |-> "", readers |-> {},
     pc |-> [w \in StatWorkers |-> "idle"],
     job |-> [w \in StatWorkers |-> NoJob],
     k |-> [w \in StatWorkers |-> 0],
     tmp |-> [w \in StatWorkers |-> 0],
     seen |-> [w \in StatWorkers |-> NoSeen]]

\* the second middleware before any request
NoTwin == [visitors |-> <<>>, out |-> "", gone |-> {}, back |-> FALSE]

NoEvent ==
    [op |-> "none", ip |-> "", out |-> "", path |-> "", n2 |-> 0, expired |-> FALSE]

\* an earlier limit denial's block has run out at n1 and no request of ip has
\* been handled since it ran out
BlockExpired(ip, n1) == blockAt[ip] # 0 /\ ~Before(n1, blockAt[ip] + blockWindow)

\* the middleware's pass over one request, its second and third clock read d1
\* and d2 after the one before; the clock reads stay up to maxT
MiddlewareAt(ip, maxT, d1, d2) ==
        LET n1 == clock
            n2 == n1 + d1
            n3 == n2 + d2
            r  == Admit(visitors, ip, n1, n2, n3)
            end == IF r.path = "blocked" THEN n1
                   ELSE IF r.path = "admit" THEN n2 ELSE n3
        IN  /\ n3 <= maxT
            /\ (r.path = "blocked") => (d1 = 0 /\ d2 = 0)
            /\ (r.path = "admit") => (d2 = 0)
            /\ visitors' = r.vis
            /\ clock' = end
            /\ hist' = [hist EXCEPT ![ip] =
                           IF r.out = "Allowed"
                           THEN LastN(Append(@, n2), limit) ELSE @]
            /\ blockAt' = [blockAt EXCEPT ![ip] =
                              IF r.path = "limit" THEN n3
                              ELSE IF r.path = "admit" THEN 0 ELSE @]
            /\ event' = [op |-> "RateLimit", ip |-> ip, out |-> r.out,
                         path |-> r.path,
                         n2 |-> IF r.path = "blocked" THEN n1 ELSE n2,
                         expired |-> BlockExpired(ip, n1)]
            /\ UNCHANGED <<limit, window, blockWindow>>

Middleware(ip, maxT) == \E d1, d2 \in 0..MaxDelay : MiddlewareAt(ip, maxT, d1, d2)

RateLimit(ip) == Middleware(ip, MaxTime) /\ UNCHANGED <<concVars, sideVars, svcVars>>

\* cleanupOldEntries, lines 110-120: one pass of the ticker loop
Reclaim_IgnoreRequests(vis, now) ==
    LET keep == {ip \in DOMAIN vis : Before(now, vis[ip].BlockedUntil)}
    IN  [ip \in keep |-> vis[ip]]

Reclaim_IgnoreBlock(vis, now) ==
    LET keep == {ip \in DOMAIN vis : ~(Len(vis[ip].Requests) = 0)}
    IN  [ip \in keep |-> vis[ip]]

Reclaim(vis, now) ==
    LET keep == {ip \in DOMAIN vis :
                    ~(Len(vis[ip].Requests) = 0 /\ ~Before(now, vis[ip].BlockedUntil))}
    IN  [ip \in keep |-> vis[ip]]

cleanupOldEntries ==
    /\ visitors' = Reclaim(visitors, clock)
    /\ event' = [NoEvent EXCEPT !.op = "cleanup"]
    /\ UNCHANGED <<limit, window, blockWindow, clock, hist, blockAt, concVars, sideVars, svcVars>>

Tick ==
    /\ clock < MaxTime
    /\ clock' = clock + 1
    /\ event' = [NoEvent EXCEPT !.op = "tick"]
    /\ UNCHANGED <<limit, window, blockWindow, visitors, hist, blockAt, concVars, sideVars, svcVars>>

----------------------------------------------------------------------------
(* NSFWService and ONNXRuntimeService: configuration, registry, inputs *)

MaxScans == 4                \* calls stop once stats.TotalScans would pass this
MaxBatch == 3                \* most items of one batch
MaxMs == 1                   \* most milliseconds one call is measured to take
MaxCumMs == 3                \* calls stop once the summed milliseconds would pass this
Burst == 20                  \* rate.NewLimiter(rate.Limit(10), 20)
HeaderBytes == 512           \* imgData[:512]
ReadAllCap == 512            \* io.ReadAll starts with a 512-byte buffer
NsPerMs == 1000000           \* time.Millisecond, in time.Duration units
DefaultMaxFileSizeMB == 10   \* MAX_FILE_SIZE_MB default
MockScore == 3               \* NSFWScore 0.3 of the mock response, in tenths
StandardScore == 7           \* outputs[1] = 0.7 through postprocessingStandard
NudeNetScore == 5            \* NSFWScore 0.5 of postprocessingNudeNet
StatusOK == 200              \* http.StatusOK
StatusNotFound == 404        \* a non-success status

Thresholds == {3, 7}         \* NSFW_THRESHOLD in tenths; 7 is the default
ModelDirs == {{"mobilenetv2-7", "NudeNet-320n"}}   \* model files found on disk
RequestModels == {"mobilenetv2-7", "NudeNet-320n", "unknown"}

\* modelFiles of loadModels: the names the registry knows
KnownModels == {"mobilenetv2-7", "nsfw_squeezenet", "NudeNet-320n", "NudeNet-640m"}

\* loadModels: a known model is registered iff its file exists
LoadModels(files) == {m \in KnownModels : m \in files}

\* GetLoadedModels: the keys of ONNXRuntimeService.models
GetLoadedModels == models

\* strings.HasPrefix(strings.ToLower(modelName), "nudenet"), on the names used
HasNudeNetPrefix(name) == name \in {"NudeNet-320n", "NudeNet-640m"}

\* s.config.MaxFileSizeMB*1024*1024
MaxFileBytes == config.MaxFileSizeMB * 1024 * 1024

Min(a, b) == IF a < b THEN a ELSE b

Max(a, b) == IF a > b THEN a ELSE b

(* An inline image: present (the string is not empty), a data-URL prefix or   *)
(* not, whether the payload is valid base64, the decoded length, and whether *)
(* the bytes begin with a decodable image header.                             *)
NoB64 == [present |-> FALSE, prefix |-> FALSE, valid |-> TRUE, len |-> 0, image |-> FALSE]

B64(prefix, valid, len, image) ==
    [present |-> TRUE, prefix |-> prefix, valid |-> valid, len |-> len, image |-> image]

(* A URL: present, the status the server answers (0: the request fails),      *)
(* the declared Content-Length (-1: none), the body's length, image or not.   *)
NoURL == [present |-> FALSE, status |-> 0, contentLength |-> 0, bodyLen |-> 0,
          image |-> FALSE]

URL(status, contentLength, bodyLen, image) ==
    [present |-> TRUE, status |-> status, contentLength |-> contentLength,
     bodyLen |-> bodyLen, image |-> image]

Failed(kind) == [err |-> kind, len |-> 0, cap |-> 0, image |-> FALSE, via |-> "none"]

Bytes(len, cap, image) ==
    [err |-> "", len |-> len, cap |-> cap, image |-> image, via |-> "none"]

\* base64.StdEncoding.EncodedLen and DecodedLen
EncodedLen(n) == ((n + 2) \div 3) * 4

DecodedLen(n) == (n \div 4) * 3

Base64ToBytes_NoSizeCheck(b) ==
    LET payload == [b EXCEPT !.prefix = FALSE]
        data == IF ~payload.valid THEN Failed("DecodeFailed")
                ELSE Bytes(payload.len, DecodedLen(EncodedLen(payload.len)),
                           payload.image)
    IN  [data EXCEPT !.via = "decode"]

\* base64ToBytes: strip the data-URL prefix, decode, check the size; via
\* records that the inline data was decoded
Base64ToBytes(b) ==
    LET payload == [b EXCEPT !.prefix = FALSE]
        data == IF ~payload.valid THEN Failed("DecodeFailed")
                ELSE IF payload.len > MaxFileBytes THEN Failed("PayloadTooLarge")
                ELSE Bytes(payload.len, DecodedLen(EncodedLen(payload.len)),
                           payload.image)
    IN  [data EXCEPT !.via = "decode"]

\* urlToBytes: GET, status, Content-Length, read at most limit+1 bytes, size;
\* via records that the URL was fetched
UrlToBytes(u) ==
    LET data == IF u.status = 0 THEN Failed("FetchFailed")
                ELSE IF u.status # StatusOK THEN Failed("FetchFailed")
                ELSE IF u.contentLength > MaxFileBytes THEN Failed("PayloadTooLarge")
                ELSE LET n == Min(u.bodyLen, MaxFileBytes + 1)
                     IN  IF n > MaxFileBytes THEN Failed("PayloadTooLarge")
                         ELSE Bytes(n, Max(ReadAllCap, n), u.image)
    IN  [data EXCEPT !.via = "fetch"]

GetImageData_URLFirst(b, u) ==
    IF u.present THEN UrlToBytes(u)
    ELSE IF b.present THEN Base64ToBytes(b)
    ELSE Failed("MissingImageSource")

\* getImageData, and the same choice written out in ScanBatch
GetImageData(b, u) ==
    IF b.present THEN Base64ToBytes(b)
    ELSE IF u.present THEN UrlToBytes(u)
    ELSE Failed("MissingImageSource")

----------------------------------------------------------------------------
(* Stats.  sv is the mutable state a call works on:                           *)
(* [stats, tokens, stdin, cum], with the work the call has done so far in     *)
(* steps and the batch item it is working on in item (0: not in a batch)      *)

\* the call does one piece of work: "lookup" (GetLoadedModels), "decode"
\* (base64ToBytes), "fetch" (urlToBytes), "engine" (RunInference), "infer"
\* (preprocessAndRunInference), "stats" (updateStats, updateTotalScans)
Did(sv, what) == [sv EXCEPT !.steps = Append(@, [do |-> what, item |-> sv.item])]

\* the work of getImageData: none when neither source is given
Acquired(sv, img) == IF img.via = "none" THEN sv ELSE Did(sv, img.via)

ZeroStats == [TotalScans |-> 0, NSFWDetected |-> 0, TotalProcessingTime |-> 0]

\* time.Duration.Milliseconds
Milliseconds(d) == d \div NsPerMs

UpdateStats_PositiveOnly(sv, ms, isNSFW) ==
    [sv EXCEPT !.stats.TotalProcessingTime = @ + ms * NsPerMs,
               !.stats.NSFWDetected = IF isNSFW THEN @ + 1 ELSE @,
               !.cum = @ + ms]

\* updateStats
UpdateStats(sv, ms, isNSFW) ==
    Did([sv EXCEPT !.stats.TotalScans = @ + 1,
                   !.stats.TotalProcessingTime = @ + ms * NsPerMs,
                   !.stats.NSFWDetected = IF isNSFW THEN @ + 1 ELSE @,
                   !.cum = @ + ms], "stats")

\* updateTotalScans
UpdateTotalScans(sv, count, ms) ==
    Did([sv EXCEPT !.stats.TotalScans = @ + count,
                   !.stats.TotalProcessingTime = @ + ms * NsPerMs,
                   !.cum = @ + ms], "stats")

GetStats_NoGuard(st) ==
    [TotalScans |-> st.TotalScans, NSFWDetected |-> st.NSFWDetected,
     AvgResponseTimeMs |-> [num |-> Milliseconds(st.TotalProcessingTime),
                            den |-> st.TotalScans]]

\* GetStats: the average is the quotient num/den of two float64 values
GetStats(st) ==
    [TotalScans |-> st.TotalScans, NSFWDetected |-> st.NSFWDetected,
     AvgResponseTimeMs |->
         IF st.TotalScans > 0
         THEN [num |-> Milliseconds(st.TotalProcessingTime), den |-> st.TotalScans]
         ELSE [num |-> 0, den |-> 1]]

----------------------------------------------------------------------------
(* ONNXRuntimeService.RunInference *)

NoAnswer(sv, kind) == [sv |-> sv, err |-> kind, isNSFW |-> FALSE, ms |-> 0]

\* postprocessingStandard / postprocessingNudeNet, chosen in loadModels
PostScore(modelName) ==
    IF modelName \in {"NudeNet-320n", "NudeNet-640m"} THEN NudeNetScore
    ELSE StandardScore

\* preprocessAndRunInference: Allow, model lookup, decode os.Stdin, mock or
\* pre/postprocessing
PreprocessAndRunInference(sv, modelName, ms) ==
    IF ~(sv.tokens > 0) THEN NoAnswer(Did(sv, "infer"), "RateLimitExceeded")
    ELSE LET sv1 == [Did(sv, "infer") EXCEPT !.tokens = @ - 1]
         IN  IF modelName \notin models THEN NoAnswer(sv1, "ModelNotFound")
             ELSE IF ~sv1.stdin
             THEN [sv |-> sv1, err |-> "",
                   isNSFW |-> MockScore >= config.NSFWThreshold, ms |-> ms]
             ELSE [sv |-> [sv1 EXCEPT !.stdin = FALSE], err |-> "",
                   isNSFW |-> PostScore(modelName) >= config.NSFWThreshold,
                   ms |-> ms]

\* RunInference: ctx.Done() first, then inference; ms is time.Since(startTime)
RunInference(sv, ctxDone, modelName, ms) ==
    IF ctxDone THEN NoAnswer(Did(sv, "engine"), "Canceled")
    ELSE PreprocessAndRunInference(Did(sv, "engine"), modelName, ms)

----------------------------------------------------------------------------
(* NSFWService.ScanImage, DetectImage, ScanBatch *)

Returned(sv, ret, err, isNSFW) == [sv |-> sv, ret |-> ret, err |-> err, isNSFW |-> isNSFW]

\* ScanImage lines 120-156, without the deferred update
ScanImageBody(sv, req, ctxDone, ms) ==
    IF req.Model \notin GetLoadedModels
    THEN Returned(Did(sv, "lookup"), "err", "ModelNotFound", FALSE)
    ELSE LET img == GetImageData(req.ImageBase64, req.ImageURL)
             sv1 == Acquired(Did(sv, "lookup"), img)
         IN  IF img.err # "" THEN Returned(sv1, "err", img.err, FALSE)
             ELSE IF img.cap < HeaderBytes THEN Returned(sv1, "panic", "SliceBounds", FALSE)
             ELSE IF ~img.image THEN Returned(sv1, "err", "DecodeFailed", FALSE)
             ELSE LET r == RunInference(sv1, ctxDone, req.Model, ms)
                  IN  IF r.err # "" THEN Returned(r.sv, "err", "InferenceFailed", FALSE)
                      ELSE Returned(UpdateStats(r.sv, r.ms, r.isNSFW), "ok", "", r.isNSFW)

\* ScanImage: the body, then the deferred updateStats(processingTime, false)
ScanImage(sv, req, ctxDone, ms, elapsed) ==
    LET r == ScanImageBody(sv, req, ctxDone, ms)
    IN  [r EXCEPT !.sv = UpdateStats(r.sv, elapsed, FALSE)]

DetectImageBody_NoCapability(sv, req, ctxDone, ms) ==
    IF req.Model \notin GetLoadedModels
    THEN Returned(Did(sv, "lookup"), "err", "UnsupportedOperation", FALSE)
    ELSE LET img == GetImageData(req.ImageBase64, req.ImageURL)
             sv1 == Acquired(Did(sv, "lookup"), img)
         IN  IF img.err # "" THEN Returned(sv1, "err", img.err, FALSE)
             ELSE LET r == RunInference(sv1, ctxDone, req.Model, ms)
                  IN  IF r.err # "" THEN Returned(r.sv, "err", "InferenceFailed", FALSE)
                      ELSE Returned(UpdateStats(r.sv, r.ms, r.isNSFW), "ok", "", r.isNSFW)

\* DetectImage lines 243-274, without the deferred update
DetectImageBody(sv, req, ctxDone, ms) ==
    IF ~(req.Model \in GetLoadedModels /\ HasNudeNetPrefix(req.Model))
    THEN Returned(Did(sv, "lookup"), "err", "UnsupportedOperation", FALSE)
    ELSE LET img == GetImageData(req.ImageBase64, req.ImageURL)
             sv1 == Acquired(Did(sv, "lookup"), img)
         IN  IF img.err # "" THEN Returned(sv1, "err", img.err, FALSE)
             ELSE LET r == RunInference(sv1, ctxDone, req.Model, ms)
                  IN  IF r.err # "" THEN Returned(r.sv, "err", "InferenceFailed", FALSE)
                      ELSE Returned(UpdateStats(r.sv, r.ms, r.isNSFW), "ok", "", r.isNSFW)

\* DetectImage: the body, then the deferred updateStats(processingTime, false)
DetectImage(sv, req, ctxDone, ms, elapsed) ==
    LET r == DetectImageBody(sv, req, ctxDone, ms)
    IN  [r EXCEPT !.sv = UpdateStats(r.sv, elapsed, FALSE)]

BatchItem_AbortOnFailure(acc, item, i, model, ctxDone, ms) ==
    LET img == GetImageData(item.ImageBase64, item.ImageURL)
        sv1 == Acquired([acc.sv EXCEPT !.item = i], img)
        r   == RunInference(sv1, ctxDone, model, ms)
    IN  IF acc.stop THEN acc
        ELSE IF img.err # ""
        THEN [acc EXCEPT !.log = Append(@, [idx |-> i, id |-> item.ID, err |-> img.err]),
                         !.sv = sv1, !.stop = TRUE]
        ELSE IF r.err # ""
        THEN [acc EXCEPT !.sv = r.sv, !.stop = TRUE,
                         !.log = Append(@, [idx |-> i, id |-> item.ID, err |-> r.err])]
        ELSE [acc EXCEPT !.sv = UpdateStats(r.sv, r.ms, r.isNSFW),
                         !.results = Append(@, [ID |-> item.ID, IsNSFW |-> r.isNSFW,
                                                ProcessingTimeMs |-> r.ms])]

\* ScanBatch lines 181-222: one pass of the loop over req.Images
BatchItem(acc, item, i, model, ctxDone, ms) ==
    LET img == GetImageData(item.ImageBase64, item.ImageURL)
        sv1 == Acquired([acc.sv EXCEPT !.item = i], img)
        r   == RunInference(sv1, ctxDone, model, ms)
    IN  IF img.err # ""
        THEN [acc EXCEPT !.sv = sv1,
                         !.log = Append(@, [idx |-> i, id |-> item.ID, err |-> img.err])]
        ELSE IF r.err # ""
        THEN [acc EXCEPT !.sv = r.sv,
                         !.log = Append(@, [idx |-> i, id |-> item.ID, err |-> r.err])]
        ELSE [acc EXCEPT !.sv = UpdateStats(r.sv, r.ms, r.isNSFW),
                         !.results = Append(@, [ID |-> item.ID, IsNSFW |-> r.isNSFW,
                                                ProcessingTimeMs |-> r.ms])]

RECURSIVE BatchLoop(_, _, _, _, _, _)
\* the for loop of ScanBatch from item i on; ctx is done from item ctxFrom on
BatchLoop(acc, items, i, model, ctxFrom, ms) ==
    IF i > Len(items) THEN acc
    ELSE BatchLoop(BatchItem(acc, items[i], i, model, i >= ctxFrom, ms),
                   items, i + 1, model, ctxFrom, ms)

ScanBatch_NoModelCheck(sv, req, ctxFrom, ms, elapsed) ==
    LET acc == BatchLoop([sv |-> Did(sv, "lookup"), results |-> <<>>,
                          log |-> <<>>, stop |-> FALSE],
                         req.Images, 1, req.Model, ctxFrom, ms)
    IN  [sv |-> UpdateTotalScans([acc.sv EXCEPT !.item = 0], Len(acc.results),
                                 elapsed),
         ret |-> "ok", err |-> "", results |-> acc.results, log |-> acc.log]

\* ScanBatch: model check, the loop, updateTotalScans(len(results), total)
ScanBatch(sv, req, ctxFrom, ms, elapsed) ==
    IF req.Model \notin GetLoadedModels
    THEN [sv |-> Did(sv, "lookup"), ret |-> "err", err |-> "ModelNotFound",
          results |-> <<>>, log |-> <<>>]
    ELSE LET acc == BatchLoop([sv |-> Did(sv, "lookup"), results |-> <<>>,
                               log |-> <<>>, stop |-> FALSE],
                              req.Images, 1, req.Model, ctxFrom, ms)
         IN  [sv |-> UpdateTotalScans([acc.sv EXCEPT !.item = 0], Len(acc.results),
                                      elapsed),
              ret |-> "ok", err |-> "", results |-> acc.results, log |-> acc.log]

----------------------------------------------------------------------------
(* The service's calls as steps *)

SmallImage == 100            \* an image shorter than the 512 header bytes
PlainImage == 1000           \* an image longer than the 512 header bytes

\* the decoded size of Scenario D's payload: 11 MB
ScenarioDBytes == 11 * 1024 * 1024

\* image sources of single scans and detects
Sources ==
    { [ImageBase64 |-> B64(TRUE, TRUE, PlainImage, TRUE), ImageURL |-> NoURL],
      [ImageBase64 |-> B64(FALSE, TRUE, SmallImage, TRUE), ImageURL |-> NoURL],
      [ImageBase64 |-> B64(FALSE, TRUE, PlainImage, FALSE), ImageURL |-> NoURL],
      [ImageBase64 |-> B64(FALSE, FALSE, PlainImage, TRUE), ImageURL |-> NoURL],
      [ImageBase64 |-> B64(FALSE, TRUE, MaxFileBytes + 1, TRUE), ImageURL |-> NoURL],
      [ImageBase64 |-> B64(TRUE, TRUE, ScenarioDBytes, TRUE), ImageURL |-> NoURL],
      [ImageBase64 |-> B64(FALSE, TRUE, MaxFileBytes, TRUE), ImageURL |-> NoURL],
      [ImageBase64 |-> NoB64, ImageURL |-> URL(StatusOK, -1, PlainImage, TRUE)],
      [ImageBase64 |-> NoB64, ImageURL |-> URL(StatusNotFound, -1, 0, FALSE)],
      [ImageBase64 |-> B64(FALSE, TRUE, PlainImage, TRUE),
       ImageURL |-> URL(StatusNotFound, -1, 0, FALSE)],
      [ImageBase64 |-> NoB64, ImageURL |-> NoURL] }

ScanRequests ==
    { [Model |-> m, ImageBase64 |-> s.ImageBase64, ImageURL |-> s.ImageURL] :
          m \in RequestModels, s \in Sources }

\* items of batch scans
BatchItems ==
    { [ID |-> "i1", ImageBase64 |-> B64(FALSE, TRUE, PlainImage, TRUE),
       ImageURL |-> URL(StatusNotFound, -1, 0, FALSE)],
      [ID |-> "i2", ImageBase64 |-> NoB64, ImageURL |-> NoURL],
      [ID |-> "i3", ImageBase64 |-> NoB64, ImageURL |-> URL(StatusOK, -1, SmallImage, TRUE)] }

SeqsUpTo(S, n) == UNION {[1..k -> S] : k \in 0..n}

BatchRequests ==
    { [Model |-> m, Images |-> is] :
          m \in {"mobilenetv2-7", "unknown"}, is \in SeqsUpTo(BatchItems, MaxBatch) }

Service ==
    [stats |-> stats, tokens |-> tokens, stdin |-> stdinImage, cum |-> cumMs,
     steps |-> <<>>, item |-> 0]

rlAll == <<limit, window, blockWindow, clock, visitors, hist, blockAt, event, concVars,
          sideVars>>

\* the bounds a call's outcome must stay within to be explored
Caps == [scans |-> MaxScans, ms |-> MaxCumMs]

Within(sv, cap) == sv.stats.TotalScans <= cap.scans /\ sv.cum <= cap.ms

\* the call's writes to the service's state
Store(sv) ==
    /\ stats' = sv.stats
    /\ tokens' = sv.tokens
    /\ stdinImage' = sv.stdin
    /\ cumMs' = sv.cum
    /\ UNCHANGED <<phase, config, models>>

\* no statistics have been returned since the last update
NoSnapshot == [n |-> 0, resp |-> GetStats(ZeroStats)]

NoCall ==
    [op |-> "none", model |-> "", ret |-> "", err |-> "", isNSFW |-> FALSE,
     images |-> <<>>, results |-> <<>>, log |-> <<>>, ctxFrom |-> 0, steps |-> <<>>,
     src |-> "", inlineLen |-> -1, logErrs |-> <<>>, resp |-> GetStats(ZeroStats),
     ctxDone |-> FALSE]

\* which image sources a request or batch item carries
SourcesOf(req) ==
    IF req.ImageBase64.present
    THEN (IF req.ImageURL.present THEN "both" ELSE "inline")
    ELSE (IF req.ImageURL.present THEN "url" ELSE "none")

\* the decoded length of a request's inline data (-1: none, or not base64)
InlineLen(req) ==
    IF req.ImageBase64.present /\ req.ImageBase64.valid THEN req.ImageBase64.len
    ELSE -1

\* the handler is free to take a call: the last response has been written
Idle == call.op = "none"

\* ScanHandler.Scan: one request out of reqs, served by ScanImage.  ctxDone: the
\* call's context is done by the time RunInference looks at it, that is, it was
\* cancelled at some point from the start of the call to the end of the image
\* acquisition (nothing before RunInference looks at ctx)
HandleScan(reqs, cap) ==
    \E req \in reqs, ctxDone \in BOOLEAN, ms \in 0..MaxMs :
        LET r == ScanImage(Service, req, ctxDone, ms, ms)
        IN  /\ Idle
            /\ Within(r.sv, cap)
            /\ Store(r.sv)
            /\ call' = [NoCall EXCEPT !.op = "ScanImage", !.model = req.Model,
                                      !.ret = r.ret, !.err = r.err, !.isNSFW = r.isNSFW,
                                      !.steps = r.sv.steps, !.src = SourcesOf(req),
                                      !.inlineLen = InlineLen(req),
                                      !.ctxDone = ctxDone]

\* ScanHandler.Detect
HandleDetect(reqs, cap) ==
    \E req \in reqs, ctxDone \in BOOLEAN, ms \in 0..MaxMs :
        LET r == DetectImage(Service, req, ctxDone, ms, ms)
        IN  /\ Idle
            /\ Within(r.sv, cap)
            /\ Store(r.sv)
            /\ call' = [NoCall EXCEPT !.op = "DetectImage", !.model = req.Model,
                                      !.ret = r.ret, !.err = r.err, !.isNSFW = r.isNSFW,
                                      !.steps = r.sv.steps, !.src = SourcesOf(req),
                                      !.inlineLen = InlineLen(req),
                                      !.ctxDone = ctxDone]

\* ScanHandler.ScanBatch
HandleScanBatch(reqs, cap) ==
    \E req \in reqs, ctxFrom \in 1..(MaxBatch + 1), ms \in 0..MaxMs :
        LET r == ScanBatch(Service, req, ctxFrom, ms, Len(req.Images) * ms)
        IN  /\ Idle
            /\ ctxFrom <= Len(req.Images) + 1
            /\ Within(r.sv, cap)
            /\ Store(r.sv)
            /\ call' = [NoCall EXCEPT !.op = "ScanBatch", !.model = req.Model,
                                      !.ret = r.ret, !.err = r.err,
                                      !.ctxFrom = ctxFrom, !.steps = r.sv.steps,
                                      !.images = [i \in 1..Len(req.Images) |->
                                                     req.Images[i].ID],
                                      !.results = [i \in 1..Len(r.results) |->
                                                      r.results[i].ID],
                                      !.log = [i \in 1..Len(r.log) |-> r.log[i].idx],
                                      !.logErrs = [i \in 1..Len(r.log) |->
                                                      r.log[i].err]]

HandleGetStats_Counted ==
    /\ Idle
    /\ stats.TotalScans < MaxScans
    /\ call' = [NoCall EXCEPT !.op = "GetStats", !.ret = "ok", !.resp = GetStats(stats)]
    /\ stats' = [stats EXCEPT !.TotalScans = @ + 1]
    /\ UNCHANGED <<phase, config, models, tokens, stdinImage, cumMs>>

\* StatsHandler.GetStats
HandleGetStats ==
    /\ Idle
    /\ call' = [NoCall EXCEPT !.op = "GetStats", !.ret = "ok", !.resp = GetStats(stats)]
    /\ UNCHANGED <<phase, config, models, stats, tokens, stdinImage, cumMs>>

ScanImageCall == HandleScan(ScanRequests, Caps) /\ UNCHANGED <<rlAll, lastSnapshot>>

DetectImageCall == HandleDetect(ScanRequests, Caps) /\ UNCHANGED <<rlAll, lastSnapshot>>

ScanBatchCall == HandleScanBatch(BatchRequests, Caps) /\ UNCHANGED <<rlAll, lastSnapshot>>

GetStatsCall == HandleGetStats /\ UNCHANGED <<rlAll, lastSnapshot>>

\* c.JSON(...): the handler writes the response and is done with the call
Respond ==
    /\ ~Idle
    /\ call' = NoCall
    /\ UNCHANGED <<phase, config, models, stats, tokens, stdinImage, cumMs, lastSnapshot, rlAll>>

\* the bucket gains a token (a tenth of a second went by)
Refill ==
    /\ Idle
    /\ tokens < Burst
    /\ tokens' = tokens + 1
    /\ UNCHANGED <<phase, config, models, stats, stdinImage, cumMs, call, lastSnapshot, rlAll>>

\* NewNSFWService / NewONNXRuntimeService with the default configuration
SvcIdle ==
    /\ config = [NSFWThreshold |-> 7, MaxFileSizeMB |-> DefaultMaxFileSizeMB]
    /\ models = LoadModels({"mobilenetv2-7", "NudeNet-320n"})
    /\ stats = ZeroStats
    /\ tokens = Burst
    /\ stdinImage = FALSE
    /\ cumMs = 0
    /\ call = NoCall
    /\ phase = "serving"
    /\ lastSnapshot = NoSnapshot

\* NewNSFWService / NewONNXRuntimeService
SvcInit ==
    /\ config \in [NSFWThreshold : Thresholds, MaxFileSizeMB : {DefaultMaxFileSizeMB}]
    /\ \E files \in ModelDirs : models = LoadModels(files)
    /\ stats = ZeroStats
    /\ tokens = Burst
    /\ stdinImage \in BOOLEAN
    /\ cumMs = 0
    /\ call = NoCall
    /\ phase = "serving"
    /\ lastSnapshot = NoSnapshot

RLInit ==
    /\ limit \in Limits
    /\ window \in Windows
    /\ blockWindow \in BlockWindows
    /\ clock = 1
    /\ visitors = <<>>
    /\ hist = [c \in Clients |-> <<>>]
    /\ blockAt = [c \in Clients |-> 0]
    /\ event = NoEvent
    /\ twin = NoTwin
    /\ sw = NoStatsWork

NoLoc == [ip |-> "", n1 |-> 0, n2 |-> 0, n3 |-> 0, out |-> ""]

ConcIdle ==
    /\ mutex = "free"
    /\ pc = [w \in Workers |-> "start"]
    /\ loc = [w \in Workers |-> NoLoc]
    /\ snap = [w \in Workers |-> <<>>]
    /\ post = [w \in Workers |-> <<>>]

Init == RLInit /\ ConcIdle /\ SvcIdle

Next ==
    \/ \E ip \in Clients : RateLimit(ip)
    \/ cleanupOldEntries
    \/ Tick

Spec == Init /\ [][Next]_vars

\* NewRateLimitMiddleware takes any int as the limit: with limit 0 every request
\* is denied and leaves a record that holds no timestamps
ReclaimLimits == {0, 1, 2}

InitReclaim ==
    /\ limit \in ReclaimLimits
    /\ window \in Windows
    /\ blockWindow \in BlockWindows
    /\ clock = 1
    /\ visitors = <<>>
    /\ hist = [c \in Clients |-> <<>>]
    /\ blockAt = [c \in Clients |-> 0]
    /\ event = NoEvent
    /\ twin = NoTwin
    /\ sw = NoStatsWork
    /\ ConcIdle
    /\ SvcIdle

SpecReclaim == InitReclaim /\ [][Next]_vars

\* the client whose requests alone reach the second middleware
Watched == "b"

\* a request of ip with the clock reads n1, n2, n3, as the second middleware
\* handles it
TwinAdmit(ip, n1, n2, n3) ==
    LET t == Admit(twin.visitors, ip, n1, n2, n3)
    IN  [twin EXCEPT !.visitors = t.vis, !.out = t.out]

\* a request reaches the first middleware, and the second one too if it is the
\* watched client's
IndepRateLimit(ip) ==
    \E d1, d2 \in 0..MaxDelay :
        /\ MiddlewareAt(ip, MaxTime, d1, d2)
        /\ twin' = IF ip = Watched
                   THEN TwinAdmit(ip, clock, clock + d1, clock + d1 + d2)
                   ELSE twin
        /\ UNCHANGED <<concVars, sw, svcVars>>

\* the cleanup goroutine of the second middleware, on its own schedule
TwinCleanup ==
    /\ twin' = [twin EXCEPT !.visitors = Reclaim(@, clock)]
    /\ event' = [NoEvent EXCEPT !.op = "twincleanup"]
    /\ UNCHANGED <<limit, window, blockWindow, clock, visitors, hist, blockAt,
                   concVars, sw, svcVars>>

IndepNext ==
    \/ \E ip \in Clients : IndepRateLimit(ip)
    \/ cleanupOldEntries
    \/ TwinCleanup
    \/ Tick

SpecIndep == InitReclaim /\ [][IndepNext]_vars

\* a request reaches both middlewares with the same clock reads; gone: the
\* clients whose record a cleanup pass of the first middleware deleted and who
\* have not come back; back: the request came from such a client
PairRateLimit(ip) ==
    \E d1, d2 \in 0..MaxDelay :
        /\ MiddlewareAt(ip, MaxTime, d1, d2)
        /\ twin' = [TwinAdmit(ip, clock, clock + d1, clock + d1 + d2)
                       EXCEPT !.gone = @ \ {ip}, !.back = ip \in twin.gone]
        /\ UNCHANGED <<concVars, sw, svcVars>>

\* a cleanup pass of the first middleware; the second one is never cleaned
PairCleanup ==
    /\ visitors' = Reclaim(visitors, clock)
    /\ twin' = [twin EXCEPT !.gone = @ \cup (DOMAIN visitors \ DOMAIN visitors')]
    /\ event' = [NoEvent EXCEPT !.op = "cleanup"]
    /\ UNCHANGED <<limit, window, blockWindow, clock, hist, blockAt,
                   concVars, sw, svcVars>>

PairNext ==
    \/ \E ip \in Clients : PairRateLimit(ip)
    \/ PairCleanup
    \/ Tick

SpecPair == InitReclaim /\ [][PairNext]_vars

\* the limiter as main configures it: 100 requests a minute, blocked an hour
RLIdle ==
    /\ limit = 100 /\ window = 60 /\ blockWindow = 3600
    /\ clock = 1
    /\ visitors = <<>>
    /\ hist = [c \in Clients |-> <<>>]
    /\ blockAt = [c \in Clients |-> 0]
    /\ event = NoEvent
    /\ twin = NoTwin
    /\ sw = NoStatsWork

SvcNext ==
    \/ ScanImageCall
    \/ DetectImageCall
    \/ ScanBatchCall
    \/ GetStatsCall
    \/ Respond
    \/ Refill

InitSvc == RLIdle /\ ConcIdle /\ SvcInit

SpecSvc == InitSvc /\ [][SvcNext]_vars

----------------------------------------------------------------------------
(* A request through the router: the limiter middleware, then the handler *)

ReqMaxTime == 2              \* the clock stops here while requests are served

Aborted_Never(out) == FALSE

\* c.Abort() at lines 58 and 92 ends the handler chain; c.Next() at line 100
\* runs the rest of it
Aborted(out) == out = "Blocked"

\* requests the router is given: a scan that succeeds, one without an image,
\* and a batch of an item that succeeds and one that fails
ReqScans ==
    { [Model |-> "mobilenetv2-7", ImageBase64 |-> B64(FALSE, TRUE, PlainImage, TRUE),
       ImageURL |-> NoURL],
      [Model |-> "NudeNet-320n", ImageBase64 |-> NoB64, ImageURL |-> NoURL] }

ReqBatches ==
    { [Model |-> "mobilenetv2-7",
       Images |-> <<CHOOSE it \in BatchItems : it.ID = "i1",
                    CHOOSE it \in BatchItems : it.ID = "i2">>] }

\* requests are explored while they take no measurable time
ReqCaps == [scans |-> MaxScans, ms |-> 0]

\* the 429 response of the middleware: no handler runs
Denied ==
    /\ call' = [NoCall EXCEPT !.op = "Denied", !.ret = "err", !.err = "RateLimited"]
    /\ UNCHANGED <<phase, config, models, stats, tokens, stdinImage, cumMs>>

\* one request of client ip: router.Use(rateLimitMiddleware.RateLimit()), then
\* the route's handler unless the chain was aborted
Request(ip) ==
    /\ Idle
    /\ Middleware(ip, ReqMaxTime)
    /\ UNCHANGED <<concVars, sideVars, lastSnapshot>>
    /\ IF Aborted(event'.out)
       THEN Denied
       ELSE \/ HandleScan(ReqScans, ReqCaps)
            \/ HandleDetect(ReqScans, ReqCaps)
            \/ HandleScanBatch(ReqBatches, ReqCaps)
            \/ HandleGetStats

ReqTick ==
    /\ clock < ReqMaxTime
    /\ clock' = clock + 1
    /\ event' = [NoEvent EXCEPT !.op = "tick"]
    /\ UNCHANGED <<limit, window, blockWindow, visitors, hist, blockAt, concVars, sideVars, svcVars>>

ReqNext ==
    \/ \E ip \in Clients : Request(ip)
    \/ Respond
    \/ ReqTick
    \/ cleanupOldEntries

\* the limiter with the shortest window and block, the service as constructed
InitReq ==
    /\ RLInit
    /\ window = 2
    /\ blockWindow = 1
    /\ ConcIdle
    /\ SvcIdle

SpecReq == InitReq /\ [][ReqNext]_vars

----------------------------------------------------------------------------
(* A burst of scans: requests faster than the inference limiter refills *)

\* the scan of ReqScans that names a registered model and carries an image
LoadScans == {r \in ReqScans : r.ImageBase64.present}

\* enough scans to use up the limiter's burst, none taking measurable time
LoadCaps == [scans |-> 2 * Burst + 2, ms |-> 0]

\* one scan request of client ip, all within one clock reading
LoadRequest(ip) ==
    /\ Idle
    /\ Middleware(ip, 1)
    /\ UNCHANGED <<concVars, sideVars, lastSnapshot>>
    /\ IF Aborted(event'.out) THEN Denied ELSE HandleScan(LoadScans, LoadCaps)

LoadNext ==
    \/ \E ip \in Clients : LoadRequest(ip)
    \/ Respond
    \/ Refill

\* the limiter as main configures it, the service as constructed
InitLoad == RLIdle /\ ConcIdle /\ SvcIdle

SpecLoad == InitLoad /\ [][LoadNext]_vars

----------------------------------------------------------------------------
(* The limiter with its reclamation goroutine scheduled fairly *)

LiveMaxTime == 4             \* the clock reads up to here; later times read as this

LiveRateLimit(ip) == Middleware(ip, LiveMaxTime) /\ UNCHANGED <<concVars, sideVars, svcVars>>

\* time goes by, without end; from LiveMaxTime on the clock reads the same
LiveTick ==
    /\ clock' = Min(clock + 1, LiveMaxTime)
    /\ event' = [NoEvent EXCEPT !.op = "tick"]
    /\ UNCHANGED <<limit, window, blockWindow, visitors, hist, blockAt, concVars, sideVars, svcVars>>

LiveNext ==
    \/ \E ip \in Clients : LiveRateLimit(ip)
    \/ cleanupOldEntries
    \/ LiveTick

\* go cleanupOldEntries() runs a pass on every tick of its ticker, and time
\* passes
SpecLive ==
    /\ Init
    /\ [][LiveNext]_vars
    /\ WF_vars(cleanupOldEntries)
    /\ WF_vars(LiveTick)

----------------------------------------------------------------------------
(* The statistics endpoint next to the scanning endpoints *)

MaxSnapshots == 2

\* the call ran updateStats or updateTotalScans
Recorded(c) == \E k \in 1..Len(c.steps) : c.steps[k].do = "stats"

\* a scan, a detection or a batch; the snapshot history ends if it recorded
SnapScan ==
    /\ \/ HandleScan(ReqScans, Caps)
       \/ HandleDetect(ReqScans, Caps)
       \/ HandleScanBatch(ReqBatches, Caps)
    /\ lastSnapshot' = IF Recorded(call') THEN NoSnapshot ELSE lastSnapshot
    /\ UNCHANGED rlAll

\* GET /stats: the response is remembered as the latest snapshot
SnapGetStats ==
    /\ lastSnapshot.n < MaxSnapshots
    /\ HandleGetStats
    /\ lastSnapshot' = [n |-> lastSnapshot.n + 1, resp |-> call'.resp]
    /\ UNCHANGED rlAll

SnapNext ==
    \/ SnapScan
    \/ SnapGetStats
    \/ Respond

InitSnap == RLIdle /\ ConcIdle /\ SvcInit

SpecSnap == InitSnap /\ [][SnapNext]_vars

----------------------------------------------------------------------------
(* updateStats, updateTotalScans and GetStats statement by statement *)

\* the calls a goroutine may make: updateStats(ms, isNSFW),
\* updateTotalScans(count, ms) and GetStats()
StatJobs ==
    { [op |-> "updateStats", count |-> 1, ms |-> m, isNSFW |-> b] :
          m \in 0..MaxMs, b \in BOOLEAN }
    \cup { [op |-> "updateTotalScans", count |-> 2, ms |-> MaxMs, isNSFW |-> FALSE],
           [op |-> "GetStats", count |-> 0, ms |-> 0, isNSFW |-> FALSE] }

\* the fields an update assigns, in the order of its statements
Fields(job) ==
    IF job.op = "updateStats" /\ job.isNSFW
    THEN <<"TotalScans", "TotalProcessingTime", "NSFWDetected">>
    ELSE <<"TotalScans", "TotalProcessingTime">>

\* what an update adds to a field
Delta(job, field) ==
    IF field = "TotalScans" THEN job.count
    ELSE IF field = "TotalProcessingTime" THEN job.ms * NsPerMs
    ELSE IF job.isNSFW THEN 1 ELSE 0

\* the reads of GetStats in order: the guard, the dividend, the divisor, and
\* the two fields of the response
Reads == <<"guard", "time", "den", "TotalScans", "NSFWDetected">>

ReadField(k) ==
    IF Reads[k] = "time" THEN "TotalProcessingTime"
    ELSE IF Reads[k] = "NSFWDetected" THEN "NSFWDetected" ELSE "TotalScans"

statsFrame == <<limit, window, blockWindow, clock, visitors, hist, blockAt, event,
                concVars, twin, config, models, tokens, stdinImage, cumMs, call,
                phase, lastSnapshot>>

\* a goroutine enters one of the three functions
StatsCall(w) ==
    /\ sw.pc[w] = "idle"
    /\ \E job \in StatJobs : sw' = [sw EXCEPT !.pc[w] = "start", !.job[w] = job]
    /\ UNCHANGED <<stats, statsFrame>>

StatsCanLock_NoExclusion(w) == TRUE

\* statsMutex.Lock() returns when no writer and no reader holds the mutex
StatsCanLock(w) == sw.writer = "" /\ sw.readers = {}

\* statsMutex.Lock() in updateStats / updateTotalScans
StatsLock(w) ==
    /\ sw.pc[w] = "start"
    /\ sw.job[w].op # "GetStats"
    /\ StatsCanLock(w)
    /\ sw' = [sw EXCEPT !.writer = w, !.pc[w] = "load", !.k[w] = 1]
    /\ UNCHANGED <<stats, statsFrame>>

\* x += d, first half: read the field
StatsLoad(w) ==
    /\ sw.pc[w] = "load"
    /\ sw' = [sw EXCEPT !.tmp[w] = stats[Fields(sw.job[w])[sw.k[w]]],
                        !.pc[w] = "store"]
    /\ UNCHANGED <<stats, statsFrame>>

\* x += d, second half: write the sum; then the next statement or the unlock
StatsStore(w) ==
    LET job   == sw.job[w]
        field == Fields(job)[sw.k[w]]
    IN  /\ sw.pc[w] = "store"
        /\ stats' = [stats EXCEPT ![field] = sw.tmp[w] + Delta(job, field)]
        /\ sw' = [sw EXCEPT !.pc[w] = IF sw.k[w] = Len(Fields(job))
                                      THEN "unlock" ELSE "load",
                            !.k[w] = @ + 1]
        /\ UNCHANGED statsFrame

\* the deferred statsMutex.Unlock()
StatsUnlock(w) ==
    /\ sw.pc[w] = "unlock"
    /\ sw' = [sw EXCEPT !.writer = IF @ = w THEN "" ELSE @, !.pc[w] = "done"]
    /\ UNCHANGED <<stats, statsFrame>>

\* statsMutex.RLock() in GetStats: returns when no writer holds the mutex
StatsRLock(w) ==
    /\ sw.pc[w] = "start"
    /\ sw.job[w].op = "GetStats"
    /\ sw.writer = ""
    /\ sw' = [sw EXCEPT !.readers = @ \cup {w}, !.pc[w] = "read", !.k[w] = 1]
    /\ UNCHANGED <<stats, statsFrame>>

\* one read of GetStats; with TotalScans = 0 the division is skipped
StatsRead(w) ==
    LET k     == sw.k[w]
        value == stats[ReadField(k)]
        next  == IF Reads[k] = "guard" /\ value = 0 THEN 4 ELSE k + 1
    IN  /\ sw.pc[w] = "read"
        /\ sw' = [sw EXCEPT !.seen[w][Reads[k]] = value,
                            !.k[w] = next,
                            !.pc[w] = IF k = Len(Reads) THEN "runlock" ELSE "read"]
        /\ UNCHANGED <<stats, statsFrame>>

\* the deferred statsMutex.RUnlock()
StatsRUnlock(w) ==
    /\ sw.pc[w] = "runlock"
    /\ sw' = [sw EXCEPT !.readers = @ \ {w}, !.pc[w] = "done"]
    /\ UNCHANGED <<stats, statsFrame>>

StatsNext ==
    \E w \in StatWorkers :
        \/ StatsCall(w)
        \/ StatsLock(w)
        \/ StatsLoad(w)
        \/ StatsStore(w)
        \/ StatsUnlock(w)
        \/ StatsRLock(w)
        \/ StatsRead(w)
        \/ StatsRUnlock(w)

InitStats == RLIdle /\ ConcIdle /\ SvcIdle

SpecStats == InitStats /\ [][StatsNext]_vars

----------------------------------------------------------------------------
(* main: construct the service, check readiness, then listen *)

\* what the model directory may hold when the process starts
BootDirs ==
    { {}, {"readme.txt"}, {"mobilenetv2-7"}, {"mobilenetv2-7", "NudeNet-320n"} }

IsReady_Always(loaded) == TRUE

\* NSFWService.IsReady: len(GetLoadedModels()) > 0
IsReady(loaded) == Cardinality(loaded) > 0

\* main lines 38-43: NewNSFWService loads the models; logger.Fatal exits the
\* process when IsReady is false
Boot ==
    /\ phase = "starting"
    /\ \E files \in BootDirs :
           /\ models' = LoadModels(files)
           /\ phase' = IF IsReady(LoadModels(files)) THEN "serving" ELSE "fatal"
    /\ UNCHANGED <<config, stats, tokens, stdinImage, cumMs, call, lastSnapshot, rlAll>>

\* main lines 99-107: server.ListenAndServe hands requests to the handlers
ListenAndServe ==
    /\ phase = "serving"
    /\ \/ HandleScan(ReqScans, Caps)
       \/ HandleDetect(ReqScans, Caps)
       \/ HandleScanBatch(ReqBatches, Caps)
       \/ HandleGetStats
    /\ UNCHANGED <<rlAll, lastSnapshot>>

BootNext ==
    \/ Boot
    \/ ListenAndServe
    \/ Respond

\* the process before NewNSFWService has run
InitBoot ==
    /\ RLIdle
    /\ ConcIdle
    /\ config = [NSFWThreshold |-> 7, MaxFileSizeMB |-> DefaultMaxFileSizeMB]
    /\ models = {}
    /\ stats = ZeroStats
    /\ tokens = Burst
    /\ stdinImage \in BOOLEAN
    /\ cumMs = 0
    /\ call = NoCall
    /\ phase = "starting"
    /\ lastSnapshot = NoSnapshot

SpecBoot == InitBoot /\ [][BootNext]_vars

----------------------------------------------------------------------------
(* RateLimit statement by statement, one goroutine per request, with the     *)
(* mutex of lines 49, 54, 88 and 98                                          *)

histVars == <<hist, blockAt, event>>

TryLock_NoExclusion(w) == TRUE

\* r.mutex.Lock() returns only when no one holds the mutex
TryLock(w) == mutex = "free"

\* lines 47-50: ClientIP, Lock, map lookup
Lock(w) ==
    /\ pc[w] = "start"
    /\ TryLock(w)
    /\ \E ip \in Clients : loc' = [loc EXCEPT ![w] = [NoLoc EXCEPT !.ip = ip]]
    /\ mutex' = w
    /\ snap' = [snap EXCEPT ![w] = visitors]
    /\ pc' = [pc EXCEPT ![w] = "check"]
    /\ UNCHANGED <<limit, window, blockWindow, clock, visitors, post, histVars, sideVars, svcVars>>

\* lines 53-60: blocked: Unlock, 429, return
CheckBlocked(w) ==
    /\ pc[w] = "check"
    /\ IF IsBlocked(visitors, loc[w].ip, clock)
       THEN /\ loc' = [loc EXCEPT ![w].n1 = clock, ![w].n2 = clock, ![w].n3 = clock,
                                  ![w].out = "Blocked"]
            /\ mutex' = "free"
            /\ post' = [post EXCEPT ![w] = BlockedBranch(visitors, loc[w].ip, clock)]
            /\ visitors' = BlockedBranch(visitors, loc[w].ip, clock)
            /\ pc' = [pc EXCEPT ![w] = "done"]
       ELSE /\ loc' = [loc EXCEPT ![w].n1 = clock]
            /\ pc' = [pc EXCEPT ![w] = "create"]
            /\ UNCHANGED <<mutex, post, visitors>>
    /\ UNCHANGED <<limit, window, blockWindow, clock, snap, histVars, sideVars, svcVars>>

\* lines 62-68: create the visitor if the lookup found none
CreateVisitor(w) ==
    /\ pc[w] = "create"
    /\ visitors' = IF loc[w].ip \in DOMAIN visitors THEN visitors
                   ELSE Put(visitors, loc[w].ip, NewVisitor)
    /\ pc' = [pc EXCEPT ![w] = "prune"]
    /\ UNCHANGED <<limit, window, blockWindow, clock, mutex, loc, snap, post, histVars, sideVars, svcVars>>

\* lines 70-80: now, cutoff, prune, store the pruned slice
PruneRequests(w) ==
    /\ pc[w] = "prune"
    /\ loc[w].ip \in DOMAIN visitors
    /\ visitors' = [visitors EXCEPT ![loc[w].ip].Requests = Prune(@, clock - window)]
    /\ loc' = [loc EXCEPT ![w].n2 = clock]
    /\ pc' = [pc EXCEPT ![w] = "compare"]
    /\ UNCHANGED <<limit, window, blockWindow, clock, mutex, snap, post, histVars, sideVars, svcVars>>

\* lines 83-94: at the limit: set BlockedUntil, Unlock, 429, return
CompareLimit(w) ==
    /\ pc[w] = "compare"
    /\ loc[w].ip \in DOMAIN visitors
    /\ IF LimitExceeded(Len(visitors[loc[w].ip].Requests))
       THEN /\ visitors' = [visitors EXCEPT
                               ![loc[w].ip].BlockedUntil = clock + blockWindow]
            /\ post' = [post EXCEPT ![w] = visitors']
            /\ loc' = [loc EXCEPT ![w].n3 = clock, ![w].out = "Blocked"]
            /\ mutex' = "free"
            /\ pc' = [pc EXCEPT ![w] = "done"]
       ELSE /\ pc' = [pc EXCEPT ![w] = "append"]
            /\ UNCHANGED <<visitors, post, loc, mutex>>
    /\ UNCHANGED <<limit, window, blockWindow, clock, snap, histVars, sideVars, svcVars>>

\* lines 96-100: append now, Unlock, c.Next()
AppendRequest(w) ==
    /\ pc[w] = "append"
    /\ loc[w].ip \in DOMAIN visitors
    /\ visitors' = [visitors EXCEPT ![loc[w].ip].Requests = Append(@, loc[w].n2)]
    /\ post' = [post EXCEPT ![w] = visitors']
    /\ loc' = [loc EXCEPT ![w].n3 = loc[w].n2, ![w].out = "Allowed"]
    /\ mutex' = "free"
    /\ pc' = [pc EXCEPT ![w] = "done"]
    /\ UNCHANGED <<limit, window, blockWindow, clock, snap, histVars, sideVars, svcVars>>

\* line 110: the reclamation goroutine takes the mutex
CleanupLock ==
    /\ TryLock("cleanup")
    /\ mutex' = "cleanup"
    /\ UNCHANGED <<limit, window, blockWindow, clock, visitors, pc, loc, snap, post,
                   histVars, sideVars, svcVars>>

\* lines 111-120: the reclamation pass, then Unlock
CleanupPass ==
    /\ mutex = "cleanup"
    /\ visitors' = Reclaim(visitors, clock)
    /\ mutex' = "free"
    /\ UNCHANGED <<limit, window, blockWindow, clock, pc, loc, snap, post, histVars, sideVars, svcVars>>

ConcTick ==
    /\ clock < ConcMaxTime
    /\ clock' = clock + 1
    /\ UNCHANGED <<limit, window, blockWindow, visitors, concVars, histVars, sideVars, svcVars>>

ConcNext ==
    \/ \E w \in Workers : Lock(w)
    \/ \E w \in Workers : CheckBlocked(w)
    \/ \E w \in Workers : CreateVisitor(w)
    \/ \E w \in Workers : PruneRequests(w)
    \/ \E w \in Workers : CompareLimit(w)
    \/ \E w \in Workers : AppendRequest(w)
    \/ CleanupLock
    \/ CleanupPass
    \/ ConcTick

SpecConc == Init /\ [][ConcNext]_vars

----------------------------------------------------------------------------
(* Claims about RateLimit, checked under Spec *)

\* the step just taken is a RateLimit call of ip
Called(ip) == event'.op = "RateLimit" /\ event'.ip = ip

\* the last `limit` admissions of ip all lie less than one window before t
WindowFull(ip, t) == Len(hist[ip]) = limit /\ After(hist[ip][1], t - window)

\* C1: once `limit` requests of a client were admitted within one window, its
\* next request inside that window is denied, and every request of the client
\* that arrives less than blockWindow after a limit denial is denied too.
C1_BlockAfterLimit ==
    [][\A ip \in Clients :
          Called(ip) =>
              /\ WindowFull(ip, event'.n2) => event'.out = "Blocked"
              /\ (blockAt[ip] # 0 /\ Before(clock, blockAt[ip] + blockWindow))
                     => event'.out = "Blocked"]_vars

\* a request was denied inside the block period that followed `limit` admissions
C1_Witness ==
    /\ event.op = "RateLimit" /\ event.path = "blocked" /\ event.out = "Blocked"
    /\ limit = 2 /\ Len(hist[event.ip]) = 2
    /\ blockAt[event.ip] # 0
    /\ Before(clock, blockAt[event.ip] + blockWindow)
    /\ After(clock, blockAt[event.ip])

\* C2: a request of a client that is inside its block period is denied and its
\* record (and every other record) is left exactly as it was.
C2_BlockedLeavesRecord ==
    [][\A ip \in Clients :
          (Called(ip) /\ IsBlocked(visitors, ip, clock))
              => (event'.out = "Blocked" /\ visitors' = visitors)]_vars

\* a request was denied while its client was blocked, the record holding requests
C2_Witness ==
    /\ event.op = "RateLimit" /\ event.path = "blocked"
    /\ event.ip \in DOMAIN visitors
    /\ Before(clock, visitors[event.ip].BlockedUntil)
    /\ Len(visitors[event.ip].Requests) = 2

\* what C3 promises of the first request after a block ran out
ResumesFresh(ip) ==
    /\ event'.out = "Allowed"
    /\ visitors'[ip].Requests = <<event'.n2>>

\* C3 as stated: for any window and block duration, the first request after a
\* block ran out is admitted and no earlier timestamp is left in the record.
C3_Original ==
    [][\A ip \in Clients :
          (Called(ip) /\ BlockExpired(ip, clock)) => ResumesFresh(ip)]_vars

\* C3 amended: the same, for limit >= 1 and blockWindow >= window.
C3_ResumeAfterBlock ==
    [][\A ip \in Clients :
          (Called(ip) /\ BlockExpired(ip, clock) /\ limit >= 1
              /\ blockWindow >= window) => ResumesFresh(ip)]_vars

\* a request arriving after the block ran out was admitted, with requests
\* denied during the block before it
C3_Witness ==
    /\ event.op = "RateLimit" /\ event.expired /\ event.out = "Allowed"
    /\ blockWindow >= window
    /\ visitors[event.ip].BlockedUntil # ZeroTime
    /\ ~Before(clock, visitors[event.ip].BlockedUntil)

\* the sequence never steps back in time
NonDecreasing(s) == \A i, j \in 1..Len(s) : i < j => ~After(s[i], s[j])

\* every entry of s lies in [lo, hi]
AllWithin(s, lo, hi) ==
    \A i \in 1..Len(s) : ~Before(s[i], lo) /\ ~After(s[i], hi)

\* C20: in every reachable state each client's recorded timestamps are in
\* non-decreasing order, and right after a RateLimit call of the client that
\* reached the pruning step every timestamp left lies in [now - window, now].
C20_TimestampsOrderedInWindow ==
    /\ [](\A ip \in DOMAIN visitors : NonDecreasing(visitors[ip].Requests))
    /\ [][\A ip \in Clients :
            (Called(ip) /\ event'.path # "blocked") =>
                AllWithin(visitors'[ip].Requests, event'.n2 - window, event'.n2)]_vars

\* a call pruned the client's earlier timestamp and recorded the new one, while
\* another client's record holds two different timestamps
C20_Witness ==
    /\ event.op = "RateLimit" /\ event.path = "admit"
    /\ visitors[event.ip].Requests = <<event.n2>>
    /\ Len(hist[event.ip]) = 2
    /\ ~After(hist[event.ip][1], event.n2 - window)
    /\ \E ip \in DOMAIN visitors :
           /\ Len(visitors[ip].Requests) = 2
           /\ Before(visitors[ip].Requests[1], visitors[ip].Requests[2])

\* a call that found the limit reached pruned and kept the timestamps in range
C20_WitnessLimit ==
    /\ event.op = "RateLimit" /\ event.path = "limit"
    /\ Len(visitors[event.ip].Requests) = 2
    /\ Before(visitors[event.ip].Requests[1], visitors[event.ip].Requests[2])

\* the call of ip reached the pruning step
Pruned(ip) == Called(ip) /\ event'.path # "blocked"

\* the timestamps of ip's record that the call left in it
Retained(ip) ==
    LET new == visitors'[ip].Requests
    IN  IF event'.path = "admit" THEN SubSeq(new, 1, Len(new) - 1) ELSE new

\* C25 as stated: pruning removes exactly the timestamps strictly earlier than
\* now - window; a timestamp equal to now - window is kept.
C25_Original ==
    [][\A ip \in Clients :
          Pruned(ip) =>
              Retained(ip) = SelectSeq(View(visitors, ip).Requests,
                                       LAMBDA t : ~Before(t, event'.n2 - window))]_vars

\* C25 amended: pruning removes exactly the timestamps at or before
\* now - window; a timestamp equal to now - window is removed and what is
\* left lies strictly after now - window.
C25_PruneBoundary ==
    [][\A ip \in Clients :
          Pruned(ip) =>
              Retained(ip) = SelectSeq(View(visitors, ip).Requests,
                                       LAMBDA t : After(t, event'.n2 - window))]_vars

\* with limit 2, a client admitted exactly one window ago was admitted again
\* and the earlier timestamp is gone from its record
C25_Witness ==
    /\ event.op = "RateLimit" /\ event.path = "admit"
    /\ limit = 2
    /\ hist[event.ip] = <<event.n2 - window, event.n2>>
    /\ visitors[event.ip].Requests = <<event.n2>>

\* the call of ip was admitted with `limit` admissions of ip before it
AdmittedOnceMore(ip) ==
    Called(ip) /\ event'.out = "Allowed" /\ Len(hist[ip]) = limit

\* no record holds more than `limit` timestamps
RecordsWithinLimit ==
    \A ip \in DOMAIN visitors : Len(visitors[ip].Requests) <= limit

\* C28 as stated, for limit >= 1: no record holds more than `limit` timestamps
\* and no interval of length window, its two ends included, holds more than
\* `limit` admissions of one client: an admission and the limit-th one before
\* it lie more than a window apart.
C28_Original ==
    /\ [](limit >= 1 => RecordsWithinLimit)
    /\ [][\A ip \in Clients :
            (limit >= 1 /\ AdmittedOnceMore(ip)) =>
                Before(hist[ip][1], event'.n2 - window)]_vars

\* C28 amended: the same for intervals of length window that are open at
\* their early end, (t, t + window]: an admission and the limit-th one before
\* it lie at least a window apart.
C28_AdmissionsPerWindow ==
    /\ [](limit >= 1 => RecordsWithinLimit)
    /\ [][\A ip \in Clients :
            (limit >= 1 /\ AdmittedOnceMore(ip)) =>
                ~After(hist[ip][1], event'.n2 - window)]_vars

\* a client that was denied for reaching the limit, so had `limit` admissions
\* in one window, was admitted again later and holds `limit` timestamps
C28_Witness ==
    /\ event.op = "RateLimit" /\ event.path = "admit"
    /\ limit = 2
    /\ visitors[event.ip].BlockedUntil # ZeroTime
    /\ Len(visitors[event.ip].Requests) = limit
    /\ After(visitors[event.ip].Requests[1], event.n2 - window)

\* ip is inside the block period that its last limit denial started
InBlock(ip) == blockAt[ip] # 0 /\ Before(clock, blockAt[ip] + blockWindow)

\* C29: a request is denied only if its client has `limit` admissions inside
\* the window that ends at the request or is inside the block period started
\* by an earlier limit denial; a client's blocked-until is set only by a denial
\* with `limit` admissions inside the window.
C29_DeniedOnlyForCause ==
    [][\A ip \in Clients :
          Called(ip) =>
              /\ event'.out = "Blocked" => (WindowFull(ip, event'.n2) \/ InBlock(ip))
              /\ event'.out = "Allowed" => ~InBlock(ip)
              /\ visitors'[ip].BlockedUntil # View(visitors, ip).BlockedUntil =>
                     (event'.path = "limit" /\ WindowFull(ip, event'.n2))]_vars

\* a request was denied inside a block period although the admissions that
\* caused the block are no longer inside the window
C29_Witness ==
    /\ event.op = "RateLimit" /\ event.path = "blocked"
    /\ Len(hist[event.ip]) = limit
    /\ ~After(hist[event.ip][limit], clock - window)
    /\ Before(clock, blockAt[event.ip] + blockWindow)

\* a client below the limit was admitted while the other client is blocked
C29_WitnessAdmitted ==
    /\ event.op = "RateLimit" /\ event.out = "Allowed"
    /\ limit = 2
    /\ Len(visitors[event.ip].Requests) = 1
    /\ visitors[event.ip].BlockedUntil = ZeroTime
    /\ \E other \in DOMAIN visitors : Before(clock, visitors[other].BlockedUntil)

----------------------------------------------------------------------------
(* Claims about cleanupOldEntries, checked under SpecReclaim *)

----------------------------------------------------------------------------
(* Claims about two middlewares side by side, checked under SpecIndep *)

\* C22: a RateLimit call of one client leaves the record of every other client
\* unchanged, and each request of a client gets the outcome it gets from a
\* middleware that never sees any other client's requests.
C22_ClientsIndependent ==
    [][\A ip \in Clients :
          Called(ip) =>
              /\ \A other \in Clients \ {ip} :
                     View(visitors', other) = View(visitors, other)
              /\ ip = Watched => event'.out = twin'.out]_vars

\* the watched client was denied for reaching the limit while the other client,
\* having sent requests in between, is blocked
C22_Witness ==
    /\ event.op = "RateLimit" /\ event.ip = Watched /\ event.path = "limit"
    /\ twin.out = "Blocked"
    /\ limit = 2
    /\ \E other \in DOMAIN visitors \ {Watched} :
           /\ Len(visitors[other].Requests) = 2
           /\ Before(clock, visitors[other].BlockedUntil)
           /\ After(visitors[other].Requests[2], visitors[Watched].Requests[1])

\* the watched client was admitted although the other client is blocked
C22_WitnessAllowed ==
    /\ event.op = "RateLimit" /\ event.ip = Watched /\ event.out = "Allowed"
    /\ twin.out = "Allowed"
    /\ \E other \in DOMAIN visitors \ {Watched} :
           Before(clock, visitors[other].BlockedUntil)

----------------------------------------------------------------------------
(* Claims about a cleaned and a never cleaned middleware, checked under SpecPair *)

\* C30: every request gets the same outcome from the middleware whose map is
\* cleaned at arbitrary points as from one that is given the same requests at
\* the same times and is never cleaned.
C30_ReclaimInvisible ==
    [][\A ip \in Clients : Called(ip) => event'.out = twin'.out]_vars

\* a client came back after a cleanup pass had deleted its record, while the
\* never cleaned middleware still held the record with its expired block
C30_Witness ==
    /\ event.op = "RateLimit"
    /\ twin.back
    /\ event.expired
    /\ event.out = twin.out

----------------------------------------------------------------------------
(* Claims about concurrent RateLimit calls, checked under SpecConc *)

\* the finished calls of client c that were admitted
AdmittedCalls(c) ==
    {w \in Workers : pc[w] = "done" /\ loc[w].ip = c /\ loc[w].out = "Allowed"}

\* how many entries of s lie strictly after t
CountAfter(s, t) == Cardinality({i \in 1..Len(s) : After(s[i], t)})

\* C4: concurrent RateLimit calls behave as if run one after another in the
\* order they took the mutex: each finished call left exactly the record and
\* the outcome that the whole call, run alone on the map it found, produces;
\* no admitted timestamp still inside the window is missing from the record;
\* and no client has more than `limit` admissions inside one window.
C4_Serializable ==
    /\ \A w \in Workers :
          pc[w] = "done" =>
              LET r == Admit(snap[w], loc[w].ip, loc[w].n1, loc[w].n2, loc[w].n3)
              IN  post[w] = r.vis /\ loc[w].out = r.out
    /\ \A c \in Clients :
          mutex = "free" =>
              Cardinality({w \in AdmittedCalls(c) : After(loc[w].n2, clock - window)})
                  = CountAfter(View(visitors, c).Requests, clock - window)
    /\ \A c \in Clients : \A w \in AdmittedCalls(c) :
          Cardinality({x \in AdmittedCalls(c) :
                          /\ After(loc[x].n2, loc[w].n2 - window)
                          /\ ~After(loc[x].n2, loc[w].n2)}) <= limit

\* three calls of one client ran against limit 2: two admitted, one denied at
\* the limit
C4_Witness ==
    /\ limit = 2
    /\ \A w \in Workers : pc[w] = "done" /\ loc[w].ip = "a"
    /\ Cardinality(AdmittedCalls("a")) = 2
    /\ \E w \in Workers : loc[w].out = "Blocked" /\ loc[w].n3 > loc[w].n1

----------------------------------------------------------------------------
(* Claims about the scan service, checked under SpecSvc *)

\* the positions 1..n in order
Positions(n) == [i \in 1..n |-> i]

\* the ids of a batch at the positions pos, in the order of pos
IdsAt(images, pos) == [k \in 1..Len(pos) |-> images[pos[k]]]

\* item i of the batch fails: it carries no image source, or the context is
\* already done when its inference starts
ItemFails(c, i) == c.images[i] = "i2" \/ i >= c.ctxFrom

BatchCalled == Idle /\ call'.op = "ScanBatch"

SingleCalled == Idle /\ call'.op \in {"ScanImage", "DetectImage"}

\* C5: a batch scan against a registered model returns successfully with one
\* result per item that did not fail, carrying that item's id, in request
\* order, and none for a failed item: N items of which K fail give N-K results,
\* and the failed items are exactly the logged ones.
C5_BatchPartialResults ==
    [][(BatchCalled /\ call'.model \in models) =>
          LET c == call'
              logged(i) == \E j \in 1..Len(c.log) : c.log[j] = i
              K == Cardinality({i \in 1..Len(c.images) : ItemFails(c, i)})
          IN  /\ c.ret = "ok"
              /\ c.err = ""
              /\ tokens >= Len(c.images) =>
                     \A i \in 1..Len(c.images) : logged(i) <=> ItemFails(c, i)
              /\ tokens >= Len(c.images) => Len(c.results) = Len(c.images) - K
              /\ Len(c.results) = Len(c.images) - Len(c.log)
              /\ c.results = IdsAt(c.images, SelectSeq(Positions(Len(c.images)),
                                                         LAMBDA i : ~logged(i)))]_vars

\* Scenario C: three items, item 2 fails, results for items 1 and 3 only
C5_Witness ==
    /\ call.op = "ScanBatch"
    /\ call.ret = "ok"
    /\ call.images = <<"i1", "i2", "i3">>
    /\ call.log = <<2>>
    /\ call.results = <<"i1", "i3">>

\* C6: after a batch scan of N items of which K fail, the total scan count has
\* increased by exactly N-K.
C6_Original ==
    [][(BatchCalled /\ call'.ret = "ok") =>
          stats'.TotalScans =
              stats.TotalScans + Len(call'.images) - Len(call'.log)]_vars

\* C7: a single scan or detect that returns a result increases the total scan
\* count by exactly 1, and the positive count by 1 exactly when is_nsfw.
C7_Original ==
    [][(SingleCalled /\ call'.ret = "ok") =>
          /\ stats'.TotalScans = stats.TotalScans + 1
          /\ stats'.NSFWDetected =
                 stats.NSFWDetected + (IF call'.isNSFW THEN 1 ELSE 0)]_vars

\* C8: a single scan or detect that returns an error leaves total scans,
\* positive count and cumulative processing time unchanged.
C8_Original ==
    [][(SingleCalled /\ call'.ret = "err") => stats' = stats]_vars

\* C9: in every reachable state the positive-detection count is at most the
\* total scan count, and the total scan count never decreases from one state
\* to the next.
C9_StatsInvariant ==
    /\ stats.NSFWDetected <= stats.TotalScans
    /\ [][/\ stats'.TotalScans >= stats.TotalScans
          /\ stats'.NSFWDetected <= stats'.TotalScans]_vars

\* positives have been counted, by a single call and by a batch, and so have
\* scans that were not positive
C9_Witness ==
    /\ call.op = "ScanBatch"
    /\ Len(call.results) > 0
    /\ stats.NSFWDetected > 1
    /\ stats.TotalScans > stats.NSFWDetected

\* C10: GetStats reports an average equal to the cumulative recorded time in
\* milliseconds divided by the total scan count when that count is positive,
\* and exactly 0 when it is 0; the divisor is never 0.
C10_Average ==
    [][(Idle /\ call'.op = "GetStats") =>
          LET avg == call'.resp.AvgResponseTimeMs
          IN  /\ avg.den # 0
              /\ stats.TotalScans > 0 => avg.num * stats.TotalScans = cumMs * avg.den
              /\ stats.TotalScans = 0 => avg.num = 0
              /\ call'.resp.TotalScans = stats.TotalScans]_vars

\* a snapshot taken after scans that took time, and one taken before any scan
C10_Witness ==
    /\ call.op = "GetStats"
    /\ stats.TotalScans > 0
    /\ cumMs > 0
    /\ call.resp.AvgResponseTimeMs.num = cumMs

C10_WitnessZero ==
    /\ call.op = "GetStats"
    /\ stats.TotalScans = 0
    /\ call.resp.AvgResponseTimeMs.num = 0

----------------------------------------------------------------------------
(* What a call did, read from its steps *)

\* the call did work of one of the kinds in S
DidAny(c, S) == \E k \in 1..Len(c.steps) : c.steps[k].do \in S

\* the call did work of one of the kinds in S for batch item i
DidFor(c, i, S) ==
    \E k \in 1..Len(c.steps) : c.steps[k].item = i /\ c.steps[k].do \in S

DetectCalled == Idle /\ call'.op = "DetectImage"

\* C11: detect with a registered model that is not detection-capable fails
\* with UnsupportedOperation, and on that path no inline data is decoded, no
\* URL is fetched and no inference is performed.
C11_DetectUnsupported ==
    [][(DetectCalled /\ call'.model \in models /\ ~HasNudeNetPrefix(call'.model)) =>
          /\ call'.ret = "err"
          /\ call'.err = "UnsupportedOperation"
          /\ ~DidAny(call', {"decode", "fetch", "engine", "infer"})]_vars

\* Scenario E: detect against the classification-only model, with an image
\* given both inline and by URL
C11_Witness ==
    /\ call.op = "DetectImage"
    /\ call.model = "mobilenetv2-7"
    /\ call.model \in models
    /\ call.src = "both"
    /\ call.err = "UnsupportedOperation"

ScanCalled == Idle /\ call'.op = "ScanImage"

C12_WitnessCeiling ==
    /\ call.op = "ScanImage"
    /\ call.inlineLen = MaxFileBytes
    /\ call.ret = "ok"

\* the batch item that carries the id
ItemOf(id) == CHOOSE it \in BatchItems : it.ID = id

\* the call gets as far as resolving the image source
ResolvesSource(c) ==
    \/ c.op \in {"ScanImage", "ScanBatch"} /\ c.model \in models
    \/ c.op = "DetectImage" /\ c.model \in models /\ HasNudeNetPrefix(c.model)

\* what call c must have done for its image i (0: the image of a single call)
\* when the image's sources are src and resolving them ended with err
Resolved(c, i, src, err) ==
    /\ src \in {"inline", "both"} =>
           DidFor(c, i, {"decode"}) /\ ~DidFor(c, i, {"fetch"})
    /\ src = "url" => DidFor(c, i, {"fetch"}) /\ ~DidFor(c, i, {"decode"})
    /\ src = "none" =>
           /\ err = "MissingImageSource"
           /\ ~DidFor(c, i, {"decode", "fetch", "engine", "infer"})

\* C13: wherever an image source is resolved (single scan, detect, each batch
\* item): inline data, when present, is decoded and the URL is not fetched, also
\* when a URL is present too; a URL alone is fetched; with neither the
\* resolution fails with MissingImageSource and no inference is invoked for
\* that image.
C13_SourcePrecedence ==
    [][(Idle /\ call'.op \in {"ScanImage", "DetectImage", "ScanBatch"}
             /\ ResolvesSource(call')) =>
          LET c == call'
          IN  IF c.op = "ScanBatch"
              THEN \A i \in 1..Len(c.images) :
                      Resolved(c, i, SourcesOf(ItemOf(c.images[i])),
                               IF \E j \in 1..Len(c.log) : c.log[j] = i
                               THEN c.logErrs[CHOOSE j \in 1..Len(c.log) : c.log[j] = i]
                               ELSE "")
              ELSE Resolved(c, 0, c.src, c.err)]_vars

\* a batch held an item with neither source, one with both and one with a URL;
\* a single scan given both sources was answered from the inline data
C13_Witness ==
    /\ call.op = "ScanBatch"
    /\ call.ret = "ok"
    /\ call.images = <<"i2", "i1", "i3">>
    /\ call.results = <<"i1", "i3">>
    /\ call.logErrs = <<"MissingImageSource">>

C13_WitnessSingle ==
    /\ call.op = "ScanImage"
    /\ call.src = "both"
    /\ call.ret = "ok"

\* C17: when the request is cancelled while a batch scan is between items (the
\* context is done from item ctxFrom on), the loop stops early: no image
\* acquisition and no inference is started for any remaining item, and the call
\* returns the results collected for the items before the cancellation.
C17_Original ==
    [][(BatchCalled /\ call'.model \in models) =>
          LET c == call'
          IN  /\ \A i \in 1..Len(c.images) :
                     i >= c.ctxFrom => ~DidFor(c, i, {"decode", "fetch", "infer"})
              /\ c.ret = "ok"
              /\ c.results = IdsAt(c.images,
                                   SelectSeq(Positions(Len(c.images)),
                                             LAMBDA i : ~ItemFails(c, i)))]_vars

\* C26 as stated: detect with a model name that is not in the registry fails
\* with ModelNotFound, and it fails with UnsupportedOperation only when the
\* model is registered but not detection-capable.
C26_Original ==
    [][DetectCalled =>
          /\ call'.model \notin models =>
                 (call'.ret = "err" /\ call'.err = "ModelNotFound")
          /\ call'.err = "UnsupportedOperation" =>
                 (call'.model \in models /\ ~HasNudeNetPrefix(call'.model))]_vars

\* C27 as stated: when the call's context is cancelled while the remote fetch
\* is in flight, the fetch is aborted because of the cancellation and the scan
\* returns an error without running inference; what the server would have
\* sent plays no part in the outcome.
C27_Original ==
    [][(ScanCalled /\ call'.ctxDone /\ DidAny(call', {"fetch"})) =>
          /\ call'.ret = "err"
          /\ call'.err \in {"Canceled", "FetchFailed"}
          /\ ~DidAny(call', {"infer"})]_vars

\* C31 as stated: whatever the length of the acquired image, shorter than 512
\* bytes included, the format check of a single scan does not fault: the call
\* ends by returning a result or an error value.
C31_Original ==
    [][(ScanCalled /\ DidAny(call', {"decode", "fetch"})) =>
          call'.ret \in {"ok", "err"}]_vars

\* how many steps of one of the kinds in S the call took
CountDid(c, S) == Cardinality({k \in 1..Len(c.steps) : c.steps[k].do \in S})

\* C24: a batch scan that names a model that is not loaded fails as a whole
\* with ModelNotFound after one look at the registry: no image is decoded or
\* fetched, no inference runs, no result is returned, the counters stay.
C24_BatchModelNotFound ==
    [][(BatchCalled /\ call'.model \notin models) =>
          /\ call'.ret = "err"
          /\ call'.err = "ModelNotFound"
          /\ call'.results = <<>>
          /\ CountDid(call', {"lookup"}) = 1
          /\ ~DidAny(call', {"decode", "fetch", "engine", "infer", "stats"})
          /\ stats' = stats
          /\ cumMs' = cumMs]_vars

\* a batch of three items, two of them with usable images, named an unknown
\* model after scans had been counted
C24_Witness ==
    /\ call.op = "ScanBatch"
    /\ call.model = "unknown"
    /\ call.images = <<"i1", "i3", "i2">>
    /\ call.err = "ModelNotFound"
    /\ stats.TotalScans > 0

----------------------------------------------------------------------------
(* Claims about startup, checked under SpecBoot *)

\* C18: if zero models register at startup the process ends with a fatal error
\* before the listener is started; so in every state in which a request is
\* served the registry holds at least one model.
C18_NoServingWithoutModels ==
    /\ (phase # "starting" /\ models = {}) => phase = "fatal"
    /\ phase = "fatal" => (call = NoCall /\ stats = ZeroStats)
    /\ (phase = "serving" \/ call.op # "none") => models # {}

\* the model directory held no known model and the process ended
C18_Witness ==
    /\ phase = "fatal"
    /\ models = {}

\* a request is served from a registry of one model
C18_WitnessServing ==
    /\ phase = "serving"
    /\ call.op = "ScanImage"
    /\ models = {"mobilenetv2-7"}

----------------------------------------------------------------------------
(* Claims about the statistics endpoint, checked under SpecSnap *)

\* the same rational number
SameAverage(a, b) == a.num * b.den = b.num * a.den

\* C19: GetStats changes no counter, and two or more GetStats calls with no
\* updateStats / updateTotalScans call between them return the same total
\* scan count, the same positive count and the same average.
C19_SnapshotIdempotent ==
    [][(Idle /\ call'.op = "GetStats") =>
          /\ stats' = stats
          /\ cumMs' = cumMs
          /\ lastSnapshot.n > 0 =>
                 /\ call'.resp.TotalScans = lastSnapshot.resp.TotalScans
                 /\ call'.resp.NSFWDetected = lastSnapshot.resp.NSFWDetected
                 /\ SameAverage(call'.resp.AvgResponseTimeMs,
                                lastSnapshot.resp.AvgResponseTimeMs)]_vars

\* a second snapshot in a row, after scans were counted
C19_Witness ==
    /\ call.op = "GetStats"
    /\ lastSnapshot.n = 2
    /\ stats.TotalScans > 0
    /\ stats.NSFWDetected > 0
    /\ cumMs > 0
    /\ call.resp = lastSnapshot.resp

----------------------------------------------------------------------------
(* Claims about concurrent statistics calls, checked under SpecStats *)

RECURSIVE SumDelta(_, _)
\* what the updates of the goroutines in S add to a field, taken together
SumDelta(S, field) ==
    IF S = {} THEN 0
    ELSE LET w == CHOOSE x \in S : TRUE
         IN  Delta(sw.job[w], field) + SumDelta(S \ {w}, field)

Updaters == {w \in StatWorkers : sw.job[w].op \in {"updateStats", "updateTotalScans"}}

\* the counters are what the updates of the goroutines in S add up to
StatsAre(st, S) ==
    /\ st.TotalScans = SumDelta(S, "TotalScans")
    /\ st.TotalProcessingTime = SumDelta(S, "TotalProcessingTime")
    /\ st.NSFWDetected = SumDelta(S, "NSFWDetected")

\* what a finished GetStats read is the state after some of the updates, whole
SawWholeUpdates(w) ==
    \E S \in SUBSET Updaters :
        /\ sw.seen[w].TotalScans = SumDelta(S, "TotalScans")
        /\ sw.seen[w].NSFWDetected = SumDelta(S, "NSFWDetected")
        /\ sw.seen[w].guard = sw.seen[w].TotalScans
        /\ sw.seen[w].guard > 0 =>
               /\ sw.seen[w].den = sw.seen[w].TotalScans
               /\ sw.seen[w].time = SumDelta(S, "TotalProcessingTime")

\* C23: whatever the interleaving of concurrent updateStats and
\* updateTotalScans calls, the counters end as the sums of the calls'
\* contributions (no update is lost), and a concurrent GetStats never reads a
\* half-applied update.
C23_StatsSerialised ==
    /\ (\A w \in StatWorkers : sw.pc[w] \in {"idle", "start", "done"}) =>
           StatsAre(stats, {w \in Updaters : sw.pc[w] = "done"})
    /\ \A w \in StatWorkers :
           (sw.pc[w] = "done" /\ sw.job[w].op = "GetStats") => SawWholeUpdates(w)

\* three goroutines are done: GetStats ran between a positive updateStats and
\* an updateTotalScans and read the first one whole
C23_Witness ==
    /\ \A w \in StatWorkers : sw.pc[w] = "done"
    /\ \E u, b, g \in StatWorkers :
           /\ sw.job[u].op = "updateStats" /\ sw.job[u].isNSFW /\ sw.job[u].ms = MaxMs
           /\ sw.job[b].op = "updateTotalScans"
           /\ sw.job[g].op = "GetStats"
           /\ sw.seen[g].TotalScans = 1 /\ sw.seen[g].time = MaxMs * NsPerMs
    /\ stats.TotalScans = 3

\* three updates that contended for the mutex are all counted
C23_WitnessUpdates ==
    /\ \A w \in StatWorkers : sw.pc[w] = "done" /\ sw.job[w].op = "updateStats"
    /\ stats.TotalScans = 3

----------------------------------------------------------------------------
(* Claims about a request through the router, checked under SpecReq *)

\* the step takes a request: the middleware, then the handler or the 429
StartsCall == Idle /\ call'.op # "none"

\* C14: admission precedes all downstream work: a request the limiter denies
\* gets no model lookup, no image acquisition, no inference and no stats
\* update; those happen only in requests the limiter admitted.
C14_AdmissionFirst ==
    [][/\ StartsCall => event'.op = "RateLimit"
       /\ (StartsCall /\ event'.out = "Blocked") =>
              /\ call'.op = "Denied"
              /\ call'.steps = <<>>
              /\ stats' = stats /\ tokens' = tokens /\ cumMs' = cumMs
       /\ (stats' # stats \/ tokens' # tokens \/ cumMs' # cumMs) =>
              StartsCall /\ event'.out = "Allowed"
       /\ (call' # call /\ call'.steps # <<>>) =>
              StartsCall /\ event'.out = "Allowed"]_vars

\* a request was denied at the limit after an admitted one had been scanned
C14_Witness ==
    /\ call.op = "Denied"
    /\ event.op = "RateLimit"
    /\ event.out = "Blocked"
    /\ stats.TotalScans > 0

\* a request was denied while its client was blocked
C14_WitnessBlocked ==
    /\ call.op = "Denied"
    /\ event.op = "RateLimit"
    /\ event.path = "blocked"

----------------------------------------------------------------------------
(* Claims about a burst of scans, checked under SpecLoad *)

\* C15: the per-client limiter is the only admission gate: a request it
\* admitted, naming a registered model and carrying an acquirable image, whose
\* inference was started, is never rejected afterwards for rate or load reasons.
C15_Original ==
    [][(StartsCall /\ event'.out = "Allowed" /\ call'.model \in models
                   /\ DidAny(call', {"infer"})) =>
          call'.ret = "ok"]_vars

----------------------------------------------------------------------------
(* Claims about reclamation, checked under SpecLive *)

\* client ip has a record whose timestamps are all older than the window and
\* whose block, if any, has expired
Reclaimable(ip) ==
    /\ ip \in DOMAIN visitors
    /\ \A k \in 1..Len(visitors[ip].Requests) :
           ~After(visitors[ip].Requests[k], clock - window)
    /\ ~Before(clock, visitors[ip].BlockedUntil)

\* client ip has just sent a request
Returns(ip) == event.op = "RateLimit" /\ event.ip = ip

\* C16: with the reclamation task scheduled fairly, a client that stops
\* sending requests is eventually removed from the map: once all its timestamps
\* are older than the window and any block has expired, a later pass deletes
\* its record, unless the client returns first.
C16_Original ==
    \A ip \in Clients :
        Reclaimable(ip) ~> (ip \notin DOMAIN visitors \/ Returns(ip))

============================================================================
